---- MODULE Spec2Model ----
(***************************************************************************)
(* Model of the signal-fusion and backtesting core of sentiment-trading:   *)
(*   - RateLimiter / CostTracker   (src/src/sentiment/rate_limiter.py)     *)
(*   - GPTSentimentAnalyzer        (src/src/sentiment/gpt_analyzer.py)     *)
(*   - SentimentTradingStrategy    (src/src/strategy/trading_strategy.py)  *)
(*   - BacktestingEngine           (src/src/strategy/backtesting_engine.py)*)
(*                                                                         *)
(* Units.  Wall-clock time is in seconds; a calendar date is the day       *)
(* number now \div SecondsPerDay (ISO date strings compare like these      *)
(* numbers).  Money of the rate limiter is in 1e-8 USD, so that the        *)
(* per-token prices 0.15/1e6 and 0.60/1e6 are the integers 15 and 60.      *)
(* Sentiment scores and confidences are in tenths.                         *)
(***************************************************************************)
EXTENDS Integers, Sequences, FiniteSets, TLC

VARIABLES
    now,       \* wall clock, seconds (time.time() / datetime.now())
    rl,        \* the RateLimiter object
    file,      \* rate_limit_state.json: [exists, dr, dc]
    ct,        \* the CostTracker object
    ctFile,    \* cost_tracker.json: [exists, days]
    gw,        \* last call a single client made on the RateLimiter
    cache,     \* GPTSentimentAnalyzer.cache: cache key -> observation
    callers,   \* per concurrent caller: position in batch_analyze / analyze_sentiment
    bt,        \* one run of BacktestingEngine.run_backtest
    sg,        \* one SentimentTradingStrategy object and its last signal
    ag         \* one call of GPTSentimentAnalyzer.aggregate_sentiment

vars == <<now, rl, file, ct, ctFile, gw, cache, callers, bt, sg, ag>>

(***************************************************************************)
(* Bounds of the model and configuration values chosen for it.             *)
(***************************************************************************)
\* RateLimiter(max_requests_per_minute, max_requests_per_day, max_daily_cost):
\* constructor arguments, scaled down so that every ceiling is reached.
MaxRequestsPerMinute == 2
MaxRequestsPerDay == 3
MaxDailyCost == 20000
\* clock granularity and horizon
TickSeconds == 30
MaxTicks == 2
EveningTicks == 1
StartDay == 10
MaxDaysElapsed == 1

\* run_backtest(start_date, end_date), BacktestingEngine(initial_capital,
\* transaction_cost) and the prices of the bars the model tries.
RunStart == 1
RunEnd == 25
LongHistory == 21
LowPrice == 4
HighPrice == 6
DearPrice == 17
InitialCapital == 400000
Prices == {LowPrice, HighPrice}
TransactionCosts == {0, 1}

(***************************************************************************)
(* Program constants.                                                      *)
(***************************************************************************)
SecondsPerDay == 86400
WindowSeconds == 60
RetentionDays == 7
InputShareTenths == 7
OutputShareTenths == 3
InputPrice == 15
OutputPrice == 60
DefaultEstimatedTokens == 500

NoFile == [exists |-> FALSE, dr |-> [k \in {} |-> 0], dc |-> [k \in {} |-> 0]]
KeyError == "KeyError"

\* token usages reported by the external scorer (prompt + completion tokens);
\* for these int(t * 0.7) and int(t * 0.3) equal the exact quotients
TokenChoices == {300, DefaultEstimatedTokens}

\* the usage the model lets the external scorer report to analyze_sentiment
ScorerTokens == {DefaultEstimatedTokens}

(***************************************************************************)
(* Dictionaries keyed by date.                                             *)
(***************************************************************************)
EmptyDict == [k \in {} |-> 0]

Put(f, k, v) == [x \in (DOMAIN f) \cup {k} |-> IF x = k THEN v ELSE f[x]]

\* dict.get(k, 0)
Get(f, k) == IF k \in DOMAIN f THEN f[k] ELSE 0

\* datetime.now().date()
Today(t) == t \div SecondsPerDay

(***************************************************************************)
(* RateLimiter.  rl = [ts, dr, drDef, dc, dcDef, last,                    *)
(* cost_per_1k_tokens]:                                                    *)
(*   ts     requests_timestamps                                            *)
(*   dr     daily_requests, drDef: it is still a defaultdict(int)          *)
(*   dc     daily_costs,    dcDef: it is still a defaultdict(float)        *)
(*   last   last_reset_date                                                *)
(***************************************************************************)
\* _load_state: a loaded file replaces both defaultdicts by plain dicts
LoadState(r, f) ==
    IF ~f.exists THEN r
    ELSE [r EXCEPT !.dr = f.dr, !.drDef = FALSE, !.dc = f.dc, !.dcDef = FALSE]

\* RateLimiter.__init__ with the default cost_per_1k_tokens, which is the
\* value GPTSentimentAnalyzer passes (the argument is kept in hundredths)
NewRateLimiter(t, f) ==
    LoadState([ts |-> <<>>, dr |-> EmptyDict, drDef |-> TRUE,
               dc |-> EmptyDict, dcDef |-> TRUE, last |-> Today(t),
               cost_per_1k_tokens |-> InputPrice], f)

\* RateLimiter(cost_per_1k_tokens=rate): line 29 stores the argument
ConfiguredRateLimiter(t, f, rate) ==
    [NewRateLimiter(t, f) EXCEPT !.cost_per_1k_tokens = rate]

\* _save_state
SaveState(r) == [exists |-> TRUE, dr |-> r.dr, dc |-> r.dc]

\* _reset_if_new_day: the dict comprehensions build plain dicts
ResetIfNewDay(r, t) ==
    IF Today(t) # r.last
    THEN [r EXCEPT !.last = Today(t),
                      !.dr = [k \in {d \in DOMAIN r.dr : d >= Today(t) - RetentionDays} |-> r.dr[k]],
                      !.drDef = FALSE,
                      !.dc = [k \in {d \in DOMAIN r.dc : d >= Today(t) - RetentionDays} |-> r.dc[k]],
                      !.dcDef = FALSE]
    ELSE r

\* _clean_old_timestamps
CleanOldTimestamps(r, t) ==
    [r EXCEPT !.ts = SelectSeq(r.ts, LAMBDA x : x > t - WindowSeconds)]

\* self.daily_requests[today]: a defaultdict inserts 0, a plain dict raises
TouchRequests(r, t) ==
    IF Today(t) \in DOMAIN r.dr THEN r ELSE [r EXCEPT !.dr = Put(r.dr, Today(t), 0)]

TouchCosts(r, t) ==
    IF Today(t) \in DOMAIN r.dc THEN r ELSE [r EXCEPT !.dc = Put(r.dc, Today(t), 0)]

MissingRequests(r, t) == Today(t) \notin DOMAIN r.dr /\ ~r.drDef

MissingCosts(r, t) == Today(t) \notin DOMAIN r.dc /\ ~r.dcDef

\* check_rate_limit: [rl |-> the limiter afterwards, outcome |-> "allowed", the
\* ceiling that refused, or KeyError when the call raised]
CheckRateLimit(r, t) ==
    LET r1 == CleanOldTimestamps(ResetIfNewDay(r, t), t)
        r2 == TouchRequests(r1, t)
        r3 == TouchCosts(r2, t)
    IN IF Len(r1.ts) >= MaxRequestsPerMinute THEN [rl |-> r1, outcome |-> "per_minute"]
       ELSE IF MissingRequests(r1, t) THEN [rl |-> r1, outcome |-> KeyError]
       ELSE IF r2.dr[Today(t)] >= MaxRequestsPerDay THEN [rl |-> r2, outcome |-> "per_day"]
       ELSE IF MissingCosts(r2, t) THEN [rl |-> r2, outcome |-> KeyError]
       ELSE IF r3.dc[Today(t)] >= MaxDailyCost THEN [rl |-> r3, outcome |-> "per_cost"]
       ELSE [rl |-> r3, outcome |-> "allowed"]

\* the cost estimate of record_request (70% input, 30% output tokens)
EstimatedCost(tokens) ==
    ((tokens * InputShareTenths) \div 10) * InputPrice
    + ((tokens * OutputShareTenths) \div 10) * OutputPrice

\* record_request: [rl, file, outcome |-> "ok" or KeyError]
RecordRequest(r, f, t, tokens) ==
    LET r1 == ResetIfNewDay(r, t)
        r2 == [r1 EXCEPT !.ts = Append(r1.ts, t)]
        r3 == [r2 EXCEPT !.dr = Put(r2.dr, Today(t), Get(r2.dr, Today(t)) + 1)]
        r4 == [r3 EXCEPT !.dc = Put(r3.dc, Today(t), Get(r3.dc, Today(t)) + EstimatedCost(tokens))]
    IN IF MissingRequests(r2, t) THEN [rl |-> r2, file |-> f, outcome |-> KeyError]
       ELSE IF MissingCosts(r3, t) THEN [rl |-> r3, file |-> f, outcome |-> KeyError]
       ELSE [rl |-> r4, file |-> SaveState(r4), outcome |-> "ok"]

\* wait_if_needed: [rl, sleep |-> seconds the caller sleeps (0: returns at once)]
WaitIfNeeded(r, t) ==
    LET r1 == CleanOldTimestamps(r, t)
        oldest == CHOOSE x \in {r1.ts[i] : i \in 1..Len(r1.ts)} :
                      \A i \in 1..Len(r1.ts) : x <= r1.ts[i]
        wait == WindowSeconds - (t - oldest) + 1
    IN IF Len(r1.ts) >= MaxRequestsPerMinute /\ Len(r1.ts) > 0 /\ wait > 0
       THEN [rl |-> r1, sleep |-> wait]
       ELSE [rl |-> r1, sleep |-> 0]

\* what get_stats reports for today
RequestsToday(r, t) == Get(r.dr, Today(t))

CostToday(r, t) == Get(r.dc, Today(t))

\* recorded calls inside the 60 seconds that end at t
WindowCount(r, t) == Cardinality({i \in 1..Len(r.ts) : r.ts[i] > t - WindowSeconds})

(***************************************************************************)
(* The clock.  Seconds of a day that the model visits: the first MaxTicks  *)
(* ticks after midnight and the last EveningTicks ticks before it.         *)
(***************************************************************************)
LastDay == StartDay + MaxDaysElapsed

ModelledSecond(s) ==
    \/ s <= MaxTicks * TickSeconds
    \/ s >= SecondsPerDay - EveningTicks * TickSeconds

Evening(d) == (d + 1) * SecondsPerDay - EveningTicks * TickSeconds

Tick ==
    /\ ModelledSecond((now + TickSeconds) % SecondsPerDay)
    /\ Today(now + TickSeconds) <= LastDay
    /\ now' = now + TickSeconds

SkipToEvening ==
    /\ Evening(Today(now)) > now
    /\ now' = Evening(Today(now))

InitialTimes == {StartDay * SecondsPerDay, Evening(StartDay)}

\* rate_limit_state.json as earlier runs of the program leave it
InitialFiles ==
    {NoFile,
     [exists |-> TRUE, dr |-> (StartDay - 1) :> 1, dc |-> (StartDay - 1) :> EstimatedCost(DefaultEstimatedTokens)],
     [exists |-> TRUE, dr |-> StartDay :> 1, dc |-> StartDay :> EstimatedCost(DefaultEstimatedTokens)],
     [exists |-> TRUE, dr |-> (StartDay - RetentionDays - 1) :> 1,
      dc |-> (StartDay - RetentionDays - 1) :> EstimatedCost(DefaultEstimatedTokens)]}

(***************************************************************************)
(* Idle values of the parts a specification does not exercise.             *)
(***************************************************************************)
IdleGw == [op |-> "init", outcome |-> "none"]

NoCostFile == [exists |-> FALSE, days |-> {}]

IdleCt == [days |-> {}, isDef |-> TRUE]

IdleBt == [phase |-> "idle"]

IdleSg == [phase |-> "idle"]

IdleAg == [phase |-> "idle"]

(***************************************************************************)
(* SpecGateway: one client of the RateLimiter, calling it the way          *)
(* analyze_sentiment and batch_analyze do (a record only after an admitted *)
(* check), with time passing and the process restarting in between.        *)
(***************************************************************************)
OthersIdle ==
    /\ ct = IdleCt /\ ctFile = NoCostFile
    /\ cache = EmptyDict /\ callers = EmptyDict
    /\ bt = IdleBt /\ sg = IdleSg /\ ag = IdleAg

\* the cost_per_1k_tokens a RateLimiter is constructed with: the default and
\* its double
ConfiguredRates == {InputPrice, 2 * InputPrice}

InitGateway ==
    /\ now \in InitialTimes
    /\ file \in InitialFiles
    /\ \E rate \in ConfiguredRates : rl = ConfiguredRateLimiter(now, file, rate)
    /\ gw = IdleGw
    /\ OthersIdle

GwCheck ==
    LET res == CheckRateLimit(rl, now)
    IN /\ rl' = res.rl
       /\ gw' = [op |-> "check", outcome |-> res.outcome]
       /\ UNCHANGED <<now, file, ct, ctFile, cache, callers, bt, sg, ag>>

GwWait ==
    LET res == WaitIfNeeded(rl, now)
    IN /\ gw.op \in {"check"}
       /\ ModelledSecond((now + res.sleep) % SecondsPerDay)
       /\ Today(now + res.sleep) <= LastDay
       /\ rl' = res.rl
       /\ now' = now + res.sleep
       /\ gw' = [op |-> "wait", outcome |-> gw.outcome]
       /\ UNCHANGED <<file, ct, ctFile, cache, callers, bt, sg, ag>>

GwRecord ==
    /\ gw.op \in {"check", "wait"}
    /\ gw.outcome = "allowed"
    /\ \E tokens \in TokenChoices :
          LET res == RecordRequest(rl, file, now, tokens)
          IN /\ rl' = res.rl
             /\ file' = res.file
             /\ gw' = [op |-> "record", outcome |-> res.outcome]
    /\ UNCHANGED <<now, ct, ctFile, cache, callers, bt, sg, ag>>

GwRestart ==
    /\ rl' = ConfiguredRateLimiter(now, file, rl.cost_per_1k_tokens)
    /\ gw' = IdleGw
    /\ UNCHANGED <<now, file, ct, ctFile, cache, callers, bt, sg, ag>>

GwTick == Tick /\ UNCHANGED <<rl, file, ct, ctFile, gw, cache, callers, bt, sg, ag>>

GwSkip == SkipToEvening /\ UNCHANGED <<rl, file, ct, ctFile, gw, cache, callers, bt, sg, ag>>

NextGateway == GwCheck \/ GwWait \/ GwRecord \/ GwRestart \/ GwTick \/ GwSkip

SpecGateway == InitGateway /\ [][NextGateway]_vars

(***************************************************************************)
(* CostTracker.  Only the dates that hold a cost decide what it does:      *)
(* ct = [days |-> keys of daily_costs, isDef |-> still a defaultdict].     *)
(***************************************************************************)
CostRetentionDays == 30

\* CostTracker.__init__ / _load_costs
NewCostTracker(f) ==
    IF f.exists THEN [days |-> f.days, isDef |-> FALSE] ELSE [days |-> {}, isDef |-> TRUE]

\* add_cost and _save_costs: [ct, file, outcome |-> "ok" or KeyError]
AddCost(c, f, t) ==
    IF Today(t) \notin c.days /\ ~c.isDef
    THEN [ct |-> c, file |-> f, outcome |-> KeyError]
    ELSE [ct |-> [c EXCEPT !.days = c.days \cup {Today(t)}],
          file |-> [exists |-> TRUE,
                    days |-> {d \in c.days \cup {Today(t)} : d >= Today(t) - CostRetentionDays}],
          outcome |-> "ok"]

(***************************************************************************)
(* GPTSentimentAnalyzer.  A text is [first200, rest]: its first 200        *)
(* characters and what follows them.  An observation is                    *)
(* [sentiment, score, reasoning, confidence], score and confidence in      *)
(* tenths.                                                                 *)
(***************************************************************************)
\* batch_analyze(max_texts_per_request): constructor argument, scaled down
MaxTextsPerRequest == 2

\* caller 1 issues batch_analyze requests (as the API routes do), caller 2
\* analyze_sentiment requests
Callers == {1, 2}

BatchCallers == {1}

ScoreCallers == {2}

Texts == {[first200 |-> "a", rest |-> "x"],
          [first200 |-> "a", rest |-> "y"],
          [first200 |-> "b", rest |-> "x"]}

TA == [first200 |-> "a", rest |-> "x"]

TA2 == [first200 |-> "a", rest |-> "y"]

TB == [first200 |-> "b", rest |-> "x"]

Tickers == {"AAPL"}

\* the text arguments of analyze_sentiment the model draws from
ScoreInputs == {TA2, TB}

\* the texts_list arguments of batch_analyze the model draws from
BatchInputs == {<<>>, <<TA, TB, TA2>>}

BatchSizes == {1, 2}

\* _get_cache_key: md5 of f"{ticker or ''}:{text[:200]}", taken as injective
CacheKey(text, ticker) == <<IF ticker = "None" THEN "" ELSE ticker, text.first200>>

Obs(label, score, reasoning, confidence) ==
    [sentiment |-> label, score |-> score, reasoning |-> reasoning, confidence |-> confidence]

\* a faulty refusal: the confidence is left at the parser's default of 0.5
RefusalObservationDefaultConfidence(reason) == Obs("neutral", 0, reason, 5)

\* lines 75-80: the observation of a refused admission
RefusalObservation(reason) == Obs("neutral", 0, reason, 0)

\* lines 185-190: the observation of a failed call
ErrorObservation == Obs("neutral", 0, "Error", 0)

\* lines 221-226: what batch_analyze fills in after a refusal
RateLimitFill == Obs("neutral", 0, "Rate limit reached", 0)

\* f"Rate limit: {error_msg}"
RefusalReasoning(outcome) ==
    CASE outcome = "per_minute" -> "Rate limit: Rate limit exceeded"
      [] outcome = "per_day" -> "Rate limit: Daily limit exceeded"
      [] OTHER -> "Rate limit: Daily cost limit exceeded"

(***************************************************************************)
(* Replies of the external scorer.  shape: what response.choices[0]        *)
(* .message.content is; a field of a JSON object is absent, a number, or   *)
(* a value float() rejects ("text").                                       *)
(***************************************************************************)
Field(kind, val) == [kind |-> kind, val |-> val]

Reply(shape, fenced, label, score, confidence) ==
    [shape |-> shape, fenced |-> fenced, label |-> label, score |-> score,
     confidence |-> confidence]

ApiError == Reply("api_error", FALSE, "", Field("absent", 0), Field("absent", 0))

Replies ==
    {ApiError,
     Reply("object", TRUE, "positive", Field("number", 8), Field("absent", 0)),
     Reply("object", FALSE, "bullish", Field("number", 50), Field("number", 20)),
     Reply("object", FALSE, "positive", Field("text", 0), Field("number", 9)),
     Reply("no_braces", FALSE, "", Field("absent", 0), Field("absent", 0))}

\* lines 144-149: a ``` fence around the content is removed
StripFence(reply) == [reply EXCEPT !.fenced = FALSE]

\* lines 151-167: json.loads, the regex fallback and the defaults of a total
\* parse failure: [ok |-> FALSE] when json.loads raises out of the fallback
LoadJson(content) ==
    IF content.shape = "object" THEN [ok |-> TRUE, result |-> content, reasoning |-> "r"]
    ELSE IF content.shape = "no_braces"
    THEN [ok |-> TRUE,
          result |-> Reply("object", FALSE, "neutral", Field("number", 0), Field("number", 0)),
          reasoning |-> "Unable to parse sentiment"]
    ELSE [ok |-> FALSE, result |-> content, reasoning |-> ""]

\* float(result.get(name, default))
FloatOf(field, default) ==
    IF field.kind = "absent" THEN [ok |-> TRUE, val |-> default]
    ELSE IF field.kind = "number" THEN [ok |-> TRUE, val |-> field.val]
    ELSE [ok |-> FALSE, val |-> 0]

DefaultScore == 0

DefaultConfidence == 5

\* lines 169-175: "Ensure required fields"
EnsureFields(result, reasoning) ==
    Obs(IF result.label = "" THEN "neutral" ELSE result.label,
        FloatOf(result.score, DefaultScore).val,
        reasoning,
        FloatOf(result.confidence, DefaultConfidence).val)

\* lines 141-175: [ok |-> the reply became an observation, obs]
ParseReply(reply) ==
    LET loaded == LoadJson(StripFence(reply))
    IN IF /\ loaded.ok
          /\ FloatOf(loaded.result.score, DefaultScore).ok
          /\ FloatOf(loaded.result.confidence, DefaultConfidence).ok
       THEN [ok |-> TRUE, obs |-> EnsureFields(loaded.result, loaded.reasoning)]
       ELSE [ok |-> FALSE, obs |-> ErrorObservation]

(***************************************************************************)
(* SpecScorer: the callers of one GPTSentimentAnalyzer, each running       *)
(* analyze_sentiment or batch_analyze, interleaved at the calls they make. *)
(* callers[c] = [pc, kind, input, texts, ticker, bs, results, i, j, wake,  *)
(* raised, filled, last]:                                                  *)
(*   input    texts_list as passed, texts: after the cut to max_texts      *)
(*   results  the observations returned so far                             *)
(*   i, j     start of the current batch (0-based), current text (1-based) *)
(*   raised   the request ended with an exception                          *)
(*   filled   number of observations batch_analyze filled in on a refusal  *)
(*   last     how the last analyze_sentiment of the request returned       *)
(***************************************************************************)
NoLast == [via |-> "none", obs |-> ErrorObservation]

IdleCaller ==
    [pc |-> "idle", kind |-> "none", input |-> <<>>, texts |-> <<>>, ticker |-> "None",
     bs |-> 1, results |-> <<>>, i |-> 0, j |-> 0, wake |-> 0, raised |-> FALSE,
     filled |-> 0, last |-> NoLast]

Min(a, b) == IF a <= b THEN a ELSE b

\* analyze_sentiment returns obs to its caller: the request ends (kind "score")
\* or batch_analyze goes on with the next text or the next batch (lines 231-236)
Returned(cr, via, obs) ==
    LET batchEnd == Min(cr.i + cr.bs, Len(cr.texts))
        done == [cr EXCEPT !.last = [via |-> via, obs |-> obs],
                           !.results = Append(cr.results, obs)]
    IN IF cr.kind = "score" THEN [done EXCEPT !.pc = "done"]
       ELSE IF cr.j + 1 <= batchEnd THEN [done EXCEPT !.pc = "begin", !.j = cr.j + 1]
       ELSE IF cr.i + cr.bs < Len(cr.texts)
       THEN [done EXCEPT !.pc = "batch_check", !.i = cr.i + cr.bs]
       ELSE [done EXCEPT !.pc = "done", !.i = cr.i + cr.bs]

\* an exception leaves analyze_sentiment and batch_analyze
Raised(cr) == [cr EXCEPT !.pc = "done", !.raised = TRUE]

CurrentKey(cr) == CacheKey(cr.texts[cr.j], cr.ticker)

\* rate_limit_state.json and cost_tracker.json as earlier runs leave them
InitialFilePairs ==
    {<<NoFile, NoCostFile>>,
     <<[exists |-> TRUE, dr |-> (StartDay - 1) :> 1,
        dc |-> (StartDay - 1) :> EstimatedCost(DefaultEstimatedTokens)],
       [exists |-> TRUE, days |-> {StartDay - 1}]>>}

\* GPTSentimentAnalyzer.__init__
InitScorer ==
    /\ now \in InitialTimes
    /\ \E fp \in InitialFilePairs : file = fp[1] /\ ctFile = fp[2]
    /\ rl = NewRateLimiter(now, file)
    /\ ct = NewCostTracker(ctFile)
    /\ cache = EmptyDict
    /\ callers = [c \in Callers |-> IdleCaller]
    /\ gw = IdleGw
    /\ bt = IdleBt /\ sg = IdleSg /\ ag = IdleAg

\* a caller enters analyze_sentiment(text, ticker)
StartScore(c) ==
    /\ c \in ScoreCallers
    /\ callers[c].pc = "idle"
    /\ \E text \in ScoreInputs, ticker \in Tickers :
          callers' = [callers EXCEPT ![c] =
                         [IdleCaller EXCEPT !.pc = "begin", !.kind = "score",
                                            !.input = <<text>>, !.texts = <<text>>,
                                            !.ticker = ticker, !.j = 1]]
    /\ UNCHANGED <<now, rl, file, ct, ctFile, gw, cache, bt, sg, ag>>

\* a caller enters batch_analyze(texts_list, ticker, batch_size): lines 205-209
StartBatch(c) ==
    /\ c \in BatchCallers
    /\ callers[c].pc = "idle"
    /\ \E input \in BatchInputs, ticker \in Tickers, bs \in BatchSizes :
          LET texts == SubSeq(input, 1, Min(Len(input), MaxTextsPerRequest))
          IN callers' = [callers EXCEPT ![c] =
                            [IdleCaller EXCEPT
                                !.pc = IF Len(texts) = 0 THEN "done" ELSE "batch_check",
                                !.kind = "batch", !.input = input, !.texts = texts,
                                !.ticker = ticker, !.bs = bs]]
    /\ UNCHANGED <<now, rl, file, ct, ctFile, gw, cache, bt, sg, ag>>

\* batch_analyze, lines 215-227: the check before a batch
BatchCheck(c) ==
    LET cr == callers[c]
        res == CheckRateLimit(rl, now)
        remaining == Len(cr.texts) - Len(cr.results)
    IN /\ cr.pc = "batch_check"
       /\ rl' = res.rl
       /\ callers' = [callers EXCEPT ![c] =
              IF res.outcome = KeyError THEN Raised(cr)
              ELSE IF res.outcome = "allowed" THEN [cr EXCEPT !.pc = "begin", !.j = cr.i + 1]
              ELSE [cr EXCEPT !.pc = "done", !.filled = remaining,
                              !.results = cr.results \o [k \in 1..remaining |-> RateLimitFill]]]
       /\ UNCHANGED <<now, file, ct, ctFile, gw, cache, bt, sg, ag>>

\* analyze_sentiment, lines 66-80: cache lookup, then the admission check
ScoreBegin(c) ==
    LET cr == callers[c]
        key == CurrentKey(cr)
        res == CheckRateLimit(rl, now)
    IN /\ cr.pc = "begin"
       /\ IF key \in DOMAIN cache
          THEN /\ callers' = [callers EXCEPT ![c] = Returned(cr, "hit", cache[key])]
               /\ rl' = rl
          ELSE /\ rl' = res.rl
               /\ callers' = [callers EXCEPT ![c] =
                      IF res.outcome = KeyError THEN Raised(cr)
                      ELSE IF res.outcome = "allowed" THEN [cr EXCEPT !.pc = "wait"]
                      ELSE Returned(cr, "refused",
                                    RefusalObservation(RefusalReasoning(res.outcome)))]
       /\ UNCHANGED <<now, file, ct, ctFile, gw, cache, bt, sg, ag>>

\* analyze_sentiment, line 83: wait_if_needed, which may put the caller to sleep
ScoreWait(c) ==
    LET cr == callers[c]
        res == WaitIfNeeded(rl, now)
    IN /\ cr.pc = "wait"
       /\ rl' = res.rl
       /\ callers' = [callers EXCEPT ![c] =
              IF res.sleep > 0 THEN [cr EXCEPT !.pc = "sleep", !.wake = now + res.sleep]
              ELSE [cr EXCEPT !.pc = "call"]]
       /\ UNCHANGED <<now, file, ct, ctFile, gw, cache, bt, sg, ag>>

\* time.sleep(wait_time) is over
ScoreWake(c) ==
    /\ callers[c].pc = "sleep"
    /\ now >= callers[c].wake
    /\ callers' = [callers EXCEPT ![c].pc = "call"]
    /\ UNCHANGED <<now, rl, file, ct, ctFile, gw, cache, bt, sg, ag>>

\* what lines 116-190 do once the external scorer answered with reply:
\* [rl, file, ct, ctFile, cached, obs]
Respond(r, f, c, cf, t, reply, tokens) ==
    LET rec == RecordRequest(r, f, t, tokens)
        add == AddCost(c, cf, t)
        parsed == ParseReply(reply)
    IN IF reply.shape = "api_error"
       THEN [rl |-> r, file |-> f, ct |-> c, ctFile |-> cf, cached |-> FALSE,
             obs |-> ErrorObservation]
       ELSE IF rec.outcome = KeyError
       THEN [rl |-> rec.rl, file |-> rec.file, ct |-> c, ctFile |-> cf, cached |-> FALSE,
             obs |-> ErrorObservation]
       ELSE IF add.outcome = KeyError
       THEN [rl |-> rec.rl, file |-> rec.file, ct |-> c, ctFile |-> cf, cached |-> FALSE,
             obs |-> ErrorObservation]
       ELSE [rl |-> rec.rl, file |-> rec.file, ct |-> add.ct, ctFile |-> add.file,
             cached |-> parsed.ok, obs |-> parsed.obs]

\* analyze_sentiment, lines 85-190, for one answer of the external scorer
ScoreRespondWith(c, reply, tokens) ==
    LET cr == callers[c]
        key == CurrentKey(cr)
        out == Respond(rl, file, ct, ctFile, now, reply, tokens)
    IN /\ cr.pc = "call"
       /\ rl' = out.rl
       /\ file' = out.file
       /\ ct' = out.ct
       /\ ctFile' = out.ctFile
       /\ cache' = IF out.cached THEN Put(cache, key, out.obs) ELSE cache
       /\ callers' = [callers EXCEPT ![c] =
              Returned(cr, IF out.cached THEN "parsed" ELSE "error", out.obs)]
       /\ UNCHANGED <<now, gw, bt, sg, ag>>

\* analyze_sentiment, lines 85-190: the external call and what follows it
ScoreRespond(c) ==
    \E reply \in Replies, tokens \in ScorerTokens : ScoreRespondWith(c, reply, tokens)

\* the request is over; the caller may start another one
Return(c) ==
    /\ callers[c].pc = "done"
    /\ callers' = [callers EXCEPT ![c] = IdleCaller]
    /\ UNCHANGED <<now, rl, file, ct, ctFile, gw, cache, bt, sg, ag>>

ScTick == Tick /\ UNCHANGED <<rl, file, ct, ctFile, gw, cache, callers, bt, sg, ag>>

NextScorer ==
    \/ \E c \in Callers :
          \/ StartScore(c) \/ StartBatch(c) \/ BatchCheck(c) \/ ScoreBegin(c)
          \/ ScoreWait(c) \/ ScoreWake(c) \/ ScoreRespond(c) \/ Return(c)
    \/ ScTick

SpecScorer == InitScorer /\ [][NextScorer]_vars

(***************************************************************************)
(* SpecCrowd: three request threads share one GPTSentimentAnalyzer and     *)
(* each runs analyze_sentiment, on texts of its own ticker, within one     *)
(* minute of one day.   The external scorer always answers with a valid    *)
(* reply.                                                                  *)
(***************************************************************************)
CrowdCallers == {1, 2, 3}

CrowdTicks == 2

CrowdStart == StartDay * SecondsPerDay

CrowdTicker(c) == CASE c = 1 -> "AAPL" [] c = 2 -> "MSFT" [] OTHER -> "None"

\* the texts a thread submits: thread 2 has two, the others one
CrowdTexts(c) == IF c = 2 THEN {TA2, TB} ELSE {TB}

CrowdReply == Reply("object", FALSE, "positive", Field("number", 8), Field("number", 9))

InitCrowd ==
    /\ now = CrowdStart
    /\ file = NoFile /\ ctFile = NoCostFile
    /\ rl = NewRateLimiter(now, file)
    /\ ct = NewCostTracker(ctFile)
    /\ cache = EmptyDict
    /\ callers = [c \in CrowdCallers |-> IdleCaller]
    /\ gw = IdleGw
    /\ bt = IdleBt /\ sg = IdleSg /\ ag = IdleAg

\* a thread enters analyze_sentiment(text, ticker)
CrStart(c) ==
    /\ callers[c].pc = "idle"
    /\ \E text \in CrowdTexts(c) :
          callers' = [callers EXCEPT ![c] =
                         [IdleCaller EXCEPT !.pc = "begin", !.kind = "score",
                                            !.input = <<text>>, !.texts = <<text>>,
                                            !.ticker = CrowdTicker(c), !.j = 1]]
    /\ UNCHANGED <<now, rl, file, ct, ctFile, gw, cache, bt, sg, ag>>

CrRespond(c) == ScoreRespondWith(c, CrowdReply, DefaultEstimatedTokens)

\* time passes while the threads run
CrTick ==
    /\ now + TickSeconds <= CrowdStart + CrowdTicks * TickSeconds
    /\ now' = now + TickSeconds
    /\ UNCHANGED <<rl, file, ct, ctFile, gw, cache, callers, bt, sg, ag>>

\* time passes until the time.sleep of a waiting thread is over
CrSleep ==
    /\ \E c \in CrowdCallers :
          /\ callers[c].pc = "sleep"
          /\ callers[c].wake > now
          /\ now' = callers[c].wake
    /\ UNCHANGED <<rl, file, ct, ctFile, gw, cache, callers, bt, sg, ag>>

NextCrowd ==
    \/ \E c \in CrowdCallers :
          \/ CrStart(c) \/ ScoreBegin(c) \/ ScoreWait(c) \/ ScoreWake(c)
          \/ CrRespond(c) \/ Return(c)
    \/ CrTick
    \/ CrSleep

SpecCrowd == InitCrowd /\ [][NextCrowd]_vars

(***************************************************************************)
(* SentimentTradingStrategy.  Scores and confidences are in tenths, the    *)
(* weights are whole numbers sw, tw normalised by W = sw + tw, a technical *)
(* score is the fraction num / (10 * den).                                 *)
(***************************************************************************)
RiskPerTradePercent == 2
MinMultiplierTenths == 5
MaxMultiplierTenths == 20
ConfidenceSlopeTenths == 15
NoIndicatorConfidence == 3
BaseIndicatorConfidence == 4

\* an indicator value: None, or a number
None == [has |-> FALSE, v |-> 0]

Num(n) == [has |-> TRUE, v |-> n]

\* Python truthiness of an indicator value: None and 0 are falsy
Truthy(x) == x.has /\ x.v # 0

\* indicators == {}: the dict _calculate_indicators_for_date returns on an
\* exception, and the one run_backtest passes before 20 bars exist
EmptyIndicators ==
    [empty |-> TRUE, RSI |-> None, MACD |-> None, MACD_signal |-> None,
     MACD_diff |-> None, MA_20 |-> None, MA_50 |-> None, MA_200 |-> None,
     BB_high |-> None, BB_low |-> None, BB_mid |-> None, current_price |-> None,
     volume |-> None, volume_sma |-> None]

RECURSIVE SumSeq(_)
SumSeq(q) == IF q = <<>> THEN 0 ELSE Head(q) + SumSeq(Tail(q))

Clamp(x, lo, hi) == IF x < lo THEN lo ELSE IF x > hi THEN hi ELSE x

\* _calculate_technical_score, lines 97-172: the votes, in tenths
Votes(ind) ==
    LET price == ind.current_price
        rsi == IF ~ind.RSI.has THEN <<>>
               ELSE IF ind.RSI.v < 30 THEN <<7>>
               ELSE IF ind.RSI.v > 70 THEN <<-7>>
               ELSE IF ind.RSI.v < 50 THEN <<2>>
               ELSE <<-2>>
        macd == IF ind.MACD.has /\ ind.MACD_signal.has
                THEN (IF ind.MACD.v > ind.MACD_signal.v THEN <<5>> ELSE <<-3>>)
                ELSE <<>>
        diff == IF ind.MACD_diff.has
                THEN (IF ind.MACD_diff.v > 0 THEN <<3>> ELSE <<-3>>)
                ELSE <<>>
        ma == IF Truthy(ind.MA_20) /\ Truthy(ind.MA_50) /\ Truthy(price)
              THEN (IF price.v > ind.MA_20.v /\ ind.MA_20.v > ind.MA_50.v THEN <<6>>
                    ELSE IF price.v < ind.MA_20.v /\ ind.MA_20.v < ind.MA_50.v THEN <<-6>>
                    ELSE <<0>>)
              ELSE <<>>
        long == IF Truthy(ind.MA_200) /\ Truthy(price)
                THEN (IF price.v > ind.MA_200.v THEN <<2>> ELSE <<-2>>)
                ELSE <<>>
        bb == IF Truthy(ind.BB_high) /\ Truthy(ind.BB_low) /\ Truthy(ind.BB_mid)
                 /\ Truthy(price)
              THEN (IF price.v <= ind.BB_low.v THEN <<5>>
                    ELSE IF price.v >= ind.BB_high.v THEN <<-5>>
                    ELSE <<0>>)
              ELSE <<>>
        vol == IF Truthy(ind.volume) /\ Truthy(ind.volume_sma)
               THEN (IF 2 * ind.volume.v > 3 * ind.volume_sma.v THEN <<2>>
                     ELSE IF 2 * ind.volume.v < ind.volume_sma.v THEN <<-1>>
                     ELSE <<>>)
               ELSE <<>>
    IN rsi \o macd \o diff \o ma \o long \o bb \o vol

\* _calculate_technical_score: the mean of the votes clamped to [-1, 1],
\* as the fraction num / (10 * den)
TechnicalScore(ind) ==
    IF ind.empty \/ Votes(ind) = <<>>
    THEN [num |-> 0, den |-> 1]
    ELSE LET n == Len(Votes(ind))
         IN [num |-> Clamp(SumSeq(Votes(ind)), -10 * n, 10 * n), den |-> n]

\* a technical confidence without the floor of 0.3 for an empty indicator set
TechnicalConfidenceNoFloor(ind) ==
    BaseIndicatorConfidence
      + Cardinality({f \in {"RSI", "MACD", "MA_20", "MA_50", "MA_200", "BB_high"} : ind[f].has})

\* _calculate_technical_confidence, in tenths
TechnicalConfidence(ind) ==
    IF ind.empty THEN NoIndicatorConfidence
    ELSE LET available ==
                 Cardinality({f \in {"RSI", "MACD", "MA_20", "MA_50", "MA_200", "BB_high"} :
                                 ind[f].has})
         IN IF BaseIndicatorConfidence + available > 10 THEN 10
            ELSE BaseIndicatorConfidence + available

\* __init__, lines 20-29: the weights the object keeps are sw / den and
\* tw / den; they are divided by their sum only when the sum is > 0
Normalize(cfg) ==
    IF cfg.sw + cfg.tw > 0
    THEN [sw |-> cfg.sw, tw |-> cfg.tw, den |-> cfg.sw + cfg.tw]
    ELSE [sw |-> cfg.sw, tw |-> cfg.tw, den |-> 1]

\* __init__, lines 26-29: the weights are divided by their sum when it is > 0
TotalWeight(cfg) == IF cfg.sw + cfg.tw > 0 THEN cfg.sw + cfg.tw ELSE 1

\* a generate_signal whose thresholds are inclusive
GenerateSignalInclusive(cfg, sentiment, ind) ==
    LET W == TotalWeight(cfg)
        tech == TechnicalScore(ind)
        finalNum == cfg.sw * sentiment.weighted_score * tech.den + cfg.tw * tech.num
    IN [signal_type |-> IF finalNum >= cfg.buy * W * tech.den THEN "buy"
                        ELSE IF finalNum <= cfg.sell * W * tech.den THEN "sell"
                        ELSE "hold",
        confNum |-> cfg.sw * sentiment.confidence + cfg.tw * TechnicalConfidence(ind),
        finalNum |-> finalNum,
        finalDen |-> 10 * W * tech.den,
        technical_score |-> tech,
        technical_confidence |-> TechnicalConfidence(ind)]

\* generate_signal.  final_score = finalNum / (10 * W * den) and
\* confidence = confNum / (10 * W), W the sum of the configured weights
GenerateSignal(cfg, sentiment, ind) ==
    LET W == TotalWeight(cfg)
        tech == TechnicalScore(ind)
        finalNum == cfg.sw * sentiment.weighted_score * tech.den + cfg.tw * tech.num
        confNum == cfg.sw * sentiment.confidence + cfg.tw * TechnicalConfidence(ind)
    IN [signal_type |-> IF finalNum > cfg.buy * W * tech.den THEN "buy"
                        ELSE IF finalNum < cfg.sell * W * tech.den THEN "sell"
                        ELSE "hold",
        confNum |-> confNum,
        finalNum |-> finalNum,
        finalDen |-> 10 * W * tech.den,
        technical_score |-> tech,
        technical_confidence |-> TechnicalConfidence(ind)]

\* a sizing whose multiplier falls with the confidence
PositionSizeFalling(cfg, capital, confNum) ==
    LET W == TotalWeight(cfg)
        mult == Clamp(10 * MaxMultiplierTenths * W - ConfidenceSlopeTenths * confNum,
                      10 * MinMultiplierTenths * W, 10 * MaxMultiplierTenths * W)
    IN [num |-> capital * RiskPerTradePercent * mult, den |-> 100 * 100 * W]

\* calculate_position_size without volatility: capital * risk_per_trade *
\* clamp(0.5 + 1.5 * confidence, 0.5, 2.0), as the fraction num / den of money
PositionSize(cfg, capital, confNum) ==
    LET W == TotalWeight(cfg)
        mult == Clamp(10 * MinMultiplierTenths * W + ConfidenceSlopeTenths * confNum,
                      10 * MinMultiplierTenths * W, 10 * MaxMultiplierTenths * W)
    IN [num |-> capital * RiskPerTradePercent * mult, den |-> 100 * 100 * W]

(***************************************************************************)
(* BacktestingEngine.run_backtest.  Money is in thousandths of a dollar,   *)
(* prices are whole dollars, the transaction cost is in thousandths.       *)
(*   bt.market   the bars inside the date range, sorted by date            *)
(*   bt.rows     sentiment_df, in the order its source returned it         *)
(*   bt.idx      bars processed so far                                     *)
(*   bt.given, bt.indicators, bt.signal   what the last processed day gave *)
(*               to and got from generate_signal                           *)
(***************************************************************************)
MinBars == 20
MoneyScale == 1000
DefaultSentimentConfidence == 3

Bar(d, c) == [date |-> d, Close |-> c]

Row(d, s) == [date |-> d, avg_sentiment_score |-> s, avg_confidence |-> 9,
              mention_count |-> 3]

\* an aggregate of a day whose observations all carry confidence 1.0
SureRow(d, s) == [Row(d, s) EXCEPT !.avg_confidence = 10]

RECURSIVE ConstantBars(_, _)
ConstantBars(n, c) == IF n = 0 THEN <<>> ELSE Append(ConstantBars(n - 1, c), Bar(n, c))

\* market_fetcher.get_historical_data: bars as Yahoo Finance returned them
Markets ==
    {<<>>, <<Bar(RunStart - 1, LowPrice)>>, <<Bar(RunStart - 1, LowPrice), Bar(1, HighPrice)>>,
     <<Bar(2, HighPrice), Bar(1, LowPrice)>>, ConstantBars(LongHistory, LowPrice),
     <<Bar(1, DearPrice)>>, <<Bar(1, LowPrice), Bar(2, DearPrice)>>}
      \cup {<<Bar(1, a)>> : a \in Prices}
      \cup {<<Bar(1, a), Bar(2, b)>> : a, b \in Prices}
      \cup {<<Bar(1, a), Bar(2, b), Bar(3, c)>> : a, b, c \in Prices}

\* db_manager.get_historical_sentiment groups by date, so its rows ascend by
\* date; a sentiment_data_fn returns its rows in whatever order it likes
SentimentSources ==
    {[source |-> "none", rows |-> <<>>],
     [source |-> "db", rows |-> <<>>],
     [source |-> "db", rows |-> <<Row(1, 8)>>],
     [source |-> "db", rows |-> <<Row(1, 8), Row(2, -8)>>],
     [source |-> "db", rows |-> <<Row(2, 8), Row(3, -8)>>],
     [source |-> "db", rows |-> <<Row(1, -8), Row(3, 8)>>],
     [source |-> "db", rows |-> <<SureRow(1, 8), Row(3, -8)>>],
     [source |-> "db", rows |-> <<Row(1, 8), Row(2, -8), Row(3, 8)>>],
     [source |-> "fn", rows |-> <<Row(1, 8), Row(2, -8)>>],
     [source |-> "fn", rows |-> <<Row(2, -8), Row(1, 8)>>]}

\* SentimentTradingStrategy(sentiment_weight, technical_weight, buy_threshold,
\* sell_threshold): the defaults, sentiment only, and equal weights
StrategyConfigs ==
    {[sw |-> 6, tw |-> 4, buy |-> 6, sell |-> -6],
     [sw |-> 10, tw |-> 0, buy |-> 6, sell |-> -6],
     [sw |-> 1, tw |-> 1, buy |-> 2, sell |-> -2]}

RECURSIVE SortByDate(_)
SortByDate(q) ==
    IF q = <<>> THEN <<>>
    ELSE LET first == CHOOSE i \in 1..Len(q) : \A j \in 1..Len(q) : q[i].date <= q[j].date
         IN <<q[first]>> \o SortByDate(SubSeq(q, 1, first - 1) \o SubSeq(q, first + 1, Len(q)))

\* a date filter that forgets the start of the range
InRangeBarNoStart(b) == b.date <= RunEnd

InRangeBar(b) == b.date >= RunStart /\ b.date <= RunEnd

\* lines 54-57 and 65-68: the two error results
NoMarketData(ticker) ==
    [phase |-> "error", error |-> "No market data available for the specified period",
     ticker |-> ticker]

NoDataInRange(ticker) ==
    [phase |-> "error", error |-> "No market data in the specified date range",
     ticker |-> ticker]

\* lines 107-112: the sentiment used when no row applies
DefaultSentiment ==
    [weighted_score |-> 0, confidence |-> DefaultSentimentConfidence, total_count |-> 0]

\* lines 96-112: the sentiment handed to generate_signal on current_date
SentimentFor(rows, current_date) ==
    LET upto == SelectSeq(rows, LAMBDA r : r.date <= current_date)
    IN IF rows = <<>> \/ upto = <<>> THEN DefaultSentiment
       ELSE [weighted_score |-> upto[Len(upto)].avg_sentiment_score,
             confidence |-> upto[Len(upto)].avg_confidence,
             total_count |-> upto[Len(upto)].mention_count]

\* _calculate_indicators_for_date on 20 to 25 bars: what the ta library can
\* return for the last bar (MACD, MA_50 and MA_200 need more bars), or {} when
\* the computation raises
IndicatorChoices(price) ==
    {EmptyIndicators,
     [EmptyIndicators EXCEPT !.empty = FALSE, !.RSI = Num(25), !.MA_20 = Num(price),
         !.BB_high = Num(price + 2), !.BB_mid = Num(price + 1), !.BB_low = Num(price),
         !.current_price = Num(price), !.volume = Num(300), !.volume_sma = Num(100)],
     [EmptyIndicators EXCEPT !.empty = FALSE, !.RSI = Num(80), !.MA_20 = Num(price),
         !.BB_high = Num(price), !.BB_mid = Num(price - 1), !.BB_low = Num(price - 2),
         !.current_price = Num(price), !.volume = Num(0), !.volume_sma = Num(100)],
     [EmptyIndicators EXCEPT !.empty = FALSE, !.MA_20 = Num(price),
         !.BB_high = Num(price + 1), !.BB_mid = Num(price), !.BB_low = Num(price - 1),
         !.current_price = Num(price), !.volume = Num(100), !.volume_sma = Num(100)]}

\* line 139: shares_to_buy = int(position_value / current_price)
SharesToBuy(position, price) == position.num \div (position.den * price * MoneyScale)

\* line 141
BuyCost(n, price, tc) == n * price * (MoneyScale + tc)

\* line 158
SellRevenue(n, price, tc) == n * price * (MoneyScale - tc)

\* a buy that debits the wrong book: the shares are subtracted
AfterBuyShort(b, n, cost) == [b EXCEPT !.cash = b.cash - cost, !.shares = b.shares - n]

\* lines 144-145
AfterBuy(b, n, cost) == [b EXCEPT !.cash = b.cash - cost, !.shares = b.shares + n]

\* a sell that liquidates only half of the position
AfterSellHalf(b, revenue) == [b EXCEPT !.cash = b.cash + revenue, !.shares = b.shares \div 2]

\* lines 160-161
AfterSell(b, revenue) == [b EXCEPT !.cash = b.cash + revenue, !.shares = 0]

Trade(d, type, n, price, amount) ==
    [date |-> d, type |-> type, shares |-> n, price |-> price, amount |-> amount]

\* a day that sells on every sell signal, also with no share held
ExecuteSellAlways(b, signal, d, price) ==
    IF signal.signal_type = "buy" /\ b.cash > 0
    THEN LET n == SharesToBuy(PositionSize(b.cfg, b.cash, signal.confNum), price)
             cost == BuyCost(n, price, b.tc)
         IN IF n > 0 /\ cost <= b.cash
            THEN [AfterBuy(b, n, cost) EXCEPT
                     !.trades = Append(b.trades, Trade(d, "buy", n, price, cost))]
            ELSE b
    ELSE IF signal.signal_type = "sell"
    THEN LET revenue == SellRevenue(b.shares, price, b.tc)
         IN [AfterSell(b, revenue) EXCEPT
                !.trades = Append(b.trades, Trade(d, "sell", b.shares, price, revenue))]
    ELSE b

\* lines 131-169: the trade of one day, if any
Execute(b, signal, d, price) ==
    IF signal.signal_type = "buy" /\ b.cash > 0
    THEN LET n == SharesToBuy(PositionSize(b.cfg, b.cash, signal.confNum), price)
             cost == BuyCost(n, price, b.tc)
         IN IF n > 0 /\ cost <= b.cash
            THEN [AfterBuy(b, n, cost) EXCEPT
                     !.trades = Append(b.trades, Trade(d, "buy", n, price, cost))]
            ELSE b
    ELSE IF signal.signal_type = "sell" /\ b.shares > 0
    THEN LET revenue == SellRevenue(b.shares, price, b.tc)
         IN [AfterSell(b, revenue) EXCEPT
                !.trades = Append(b.trades, Trade(d, "sell", b.shares, price, revenue))]
    ELSE b

\* lines 88-179: one iteration of the day loop, given the indicators of the day
Day(b, ind) ==
    LET row == b.market[b.idx + 1]
        sentiment == SentimentFor(b.rows, row.date)
        signal == GenerateSignal(b.cfg, sentiment, ind)
        after == Execute(b, signal, row.date, row.Close)
    IN [after EXCEPT
           !.idx = b.idx + 1,
           !.given = sentiment,
           !.indicators = ind,
           !.signal = signal.signal_type,
           !.values = Append(b.values,
                        [date |-> row.date,
                         value |-> after.cash + after.shares * row.Close * MoneyScale,
                         cash |-> after.cash, shares |-> after.shares,
                         price |-> row.Close])]

(***************************************************************************)
(* The performance metrics, lines 181-232.  A metric is kept as the        *)
(* fraction num / den of whole numbers; the percentages are 100 times it.  *)
(***************************************************************************)
\* a / b < c / d for a, c >= 0 and b, d > 0, by the Euclidean algorithm
RECURSIVE FracLess(_, _, _, _)
FracLess(a, b, c, d) ==
    IF a \div b # c \div d THEN a \div b < c \div d
    ELSE IF c % d = 0 THEN FALSE
    ELSE IF a % b = 0 THEN TRUE
    ELSE FracLess(d, c % d, b, a % b)

FracEqual(a, b, c, d) == ~FracLess(a, b, c, d) /\ ~FracLess(c, d, a, b)

\* the largest of v[from..t]
RECURSIVE PeakFrom(_, _, _)
PeakFrom(v, from, t) ==
    IF t = from THEN v[t]
    ELSE LET before == PeakFrom(v, from, t - 1)
         IN IF v[t] > before THEN v[t] ELSE before

\* the day among from..t with the smallest value / peak, the peak running from
\* day from
RECURSIVE DeepestDay(_, _, _)
DeepestDay(v, from, t) ==
    IF t = from THEN t
    ELSE LET before == DeepestDay(v, from, t - 1)
         IN IF FracLess(v[t], PeakFrom(v, from, t), v[before], PeakFrom(v, from, before))
            THEN t ELSE before

\* the drawdown (value - peak) / peak at its deepest day
DrawdownFrom(v, from) ==
    LET t == DeepestDay(v, from, Len(v))
    IN [num |-> v[t] - PeakFrom(v, from, t), den |-> PeakFrom(v, from, t)]

\* lines 205-207: pct_change leaves NaN on the first day, cumprod and cummax
\* skip it, so the running peak starts at the second day
MaxDrawdown(v) == DrawdownFrom(v, 2)

\* lines 197-201: the Sharpe ratio is 0.0 with fewer than 2 returns or when
\* the returns v[t] / v[t-1] - 1 are all equal
SharpeIsZero(v) ==
    \/ Len(v) - 1 <= 1
    \/ \A t \in 3..Len(v) : FracEqual(v[t], v[t - 1], v[2], v[1])

\* lines 219-228: sells whose price is above the price of the latest buy
\* before them
ProfitableSells(trades) ==
    {k \in 1..Len(trades) :
        /\ trades[k].type = "sell"
        /\ \E b \in 1..(k - 1) :
              /\ trades[b].type = "buy"
              /\ \A m \in (b + 1)..(k - 1) : trades[m].type # "buy"
              /\ trades[k].price > trades[b].price}

\* lines 212-232
WinRate(trades) ==
    LET sells == {k \in 1..Len(trades) : trades[k].type = "sell"}
    IN IF Len(trades) >= 2 /\ sells # {}
       THEN [num |-> Cardinality(ProfitableSells(trades)), den |-> Cardinality(sells)]
       ELSE [num |-> 0, den |-> 1]

NoResult ==
    [final_value |-> 0, total_return |-> [num |-> 0, den |-> 1], sharpe_zero |-> TRUE,
     max_drawdown |-> [num |-> 0, den |-> 1], win_rate |-> [num |-> 0, den |-> 1],
     total_trades |-> 0]

ValuesOf(b) == [t \in 1..Len(b.values) |-> b.values[t].value]

\* lines 181-270 for a history of two or more days
Result(b) ==
    [final_value |-> ValuesOf(b)[Len(b.values)],
     total_return |-> [num |-> ValuesOf(b)[Len(b.values)] - InitialCapital,
                       den |-> InitialCapital],
     sharpe_zero |-> SharpeIsZero(ValuesOf(b)),
     max_drawdown |-> MaxDrawdown(ValuesOf(b)),
     win_rate |-> WinRate(b.trades),
     total_trades |-> Len(b.trades)]

OthersIdleBt ==
    /\ now = StartDay * SecondsPerDay
    /\ rl = NewRateLimiter(now, NoFile) /\ file = NoFile
    /\ ct = IdleCt /\ ctFile = NoCostFile
    /\ gw = IdleGw /\ cache = EmptyDict
    /\ callers = [c \in Callers |-> IdleCaller]
    /\ sg = IdleSg /\ ag = IdleAg

\* BacktestingEngine(initial_capital, transaction_cost) and the arguments of
\* run_backtest
InitBacktest ==
    /\ OthersIdleBt
    /\ \E raw \in Markets, s \in SentimentSources, cfg \in StrategyConfigs,
          tc \in TransactionCosts, ticker \in Tickers :
          bt = [phase |-> "called", ticker |-> ticker, raw |-> raw, source |-> s.source,
                fetched |-> s.rows, cfg |-> cfg, tc |-> tc]

\* lines 49-91: load and filter the bars, load the sentiment, open the portfolio
BtLoad ==
    /\ bt.phase = "called"
    /\ LET inside == SelectSeq(bt.raw, InRangeBar)
       IN bt' = IF bt.raw = <<>>
                THEN NoMarketData(bt.ticker)
                ELSE IF inside = <<>>
                THEN NoDataInRange(bt.ticker)
                ELSE [phase |-> "loop", ticker |-> bt.ticker, market |-> SortByDate(inside),
                      rows |-> IF bt.source = "none" THEN <<>> ELSE bt.fetched,
                      source |-> bt.source, cfg |-> bt.cfg, tc |-> bt.tc,
                      idx |-> 0, cash |-> InitialCapital, shares |-> 0,
                      trades |-> <<>>, values |-> <<>>,
                      given |-> DefaultSentiment, indicators |-> EmptyIndicators,
                      signal |-> "none", result |-> NoResult]
    /\ UNCHANGED <<now, rl, file, ct, ctFile, gw, cache, callers, sg, ag>>

\* lines 93-179: the next bar
BtDay ==
    /\ bt.phase = "loop"
    /\ bt.idx < Len(bt.market)
    /\ \E ind \in (IF bt.idx + 1 >= MinBars
                   THEN IndicatorChoices(bt.market[bt.idx + 1].Close)
                   ELSE {EmptyIndicators}) :
          bt' = Day(bt, ind)
    /\ UNCHANGED <<now, rl, file, ct, ctFile, gw, cache, callers, sg, ag>>

\* lines 181-270: the result.  With a single day df_values never gets its
\* 'daily_return' column (line 184) and line 205 reads it: KeyError
BtFinish ==
    /\ bt.phase = "loop"
    /\ bt.idx = Len(bt.market)
    /\ bt' = IF Len(bt.values) > 1
             THEN [bt EXCEPT !.phase = "done", !.result = Result(bt)]
             ELSE [bt EXCEPT !.phase = "raised"]
    /\ UNCHANGED <<now, rl, file, ct, ctFile, gw, cache, callers, sg, ag>>

NextBacktest == BtLoad \/ BtDay \/ BtFinish

SpecBacktest == InitBacktest /\ [][NextBacktest]_vars

(***************************************************************************)
(* SpecStrategy: a SentimentTradingStrategy is constructed from configured *)
(* weights and thresholds (tenths) and asked for signals.                  *)
(***************************************************************************)
ConfiguredWeights == {[sw |-> a, tw |-> b] : a \in {0, 4, 6, 10}, b \in {0, 4, 6}}

ConfiguredThresholds == {[buy |-> 6, sell |-> -6], [buy |-> 2, sell |-> -2]}

\* sentiment_data: weighted_score and confidence of an aggregate
SentimentInputs ==
    {[weighted_score |-> s, confidence |-> c, total_count |-> 3] :
        s \in {-10, -6, 0, 6, 10}, c \in {3, 9}}

\* an indicator dict with every field present: RSI and volume neutral, MACD
\* above its signal, price above the three moving averages, inside the bands
FullIndicators ==
    [empty |-> FALSE, RSI |-> Num(55), MACD |-> Num(2), MACD_signal |-> Num(1),
     MACD_diff |-> Num(1), MA_20 |-> Num(9), MA_50 |-> Num(8), MA_200 |-> Num(7),
     BB_high |-> Num(12), BB_low |-> Num(6), BB_mid |-> Num(9), current_price |-> Num(10),
     volume |-> Num(100), volume_sma |-> Num(100)]

\* market_data['indicators']: the empty dict, a dict of None values, and
\* FullIndicators with one group changed
IndicatorInputs ==
    {EmptyIndicators, [EmptyIndicators EXCEPT !.empty = FALSE], FullIndicators,
     [EmptyIndicators EXCEPT !.empty = FALSE, !.current_price = Num(10), !.volume = Num(100)],
     [EmptyIndicators EXCEPT !.empty = FALSE, !.MACD_diff = Num(1)]}
      \cup {[FullIndicators EXCEPT !.RSI = x] : x \in {None, Num(0), Num(20), Num(40), Num(80)}}
      \cup {[FullIndicators EXCEPT !.MACD = x, !.MACD_signal = y] :
               x \in {None, Num(0)}, y \in {None, Num(0)}}
      \cup {[FullIndicators EXCEPT !.MACD_diff = x] : x \in {None, Num(0), Num(-1)}}
      \cup {[FullIndicators EXCEPT !.MA_20 = x, !.MA_50 = y] :
               x \in {Num(11), Num(0)}, y \in {None, Num(12)}}
      \cup {[FullIndicators EXCEPT !.MA_200 = x] : x \in {None, Num(0), Num(11)}}
      \cup {[FullIndicators EXCEPT !.BB_low = x, !.BB_high = y] :
               x \in {None, Num(0), Num(10)}, y \in {Num(12), Num(10)}}
      \cup {[FullIndicators EXCEPT !.volume = x, !.volume_sma = y] :
               x \in {None, Num(0), Num(40), Num(200)}, y \in {None, Num(100)}}

OthersIdleSg ==
    /\ now = StartDay * SecondsPerDay
    /\ rl = NewRateLimiter(now, NoFile) /\ file = NoFile
    /\ ct = IdleCt /\ ctFile = NoCostFile
    /\ gw = IdleGw /\ cache = EmptyDict
    /\ callers = [c \in Callers |-> IdleCaller]
    /\ bt = IdleBt

\* the arguments of SentimentTradingStrategy(...)
InitStrategy ==
    /\ OthersIdleSg /\ ag = IdleAg
    /\ \E w \in ConfiguredWeights, t \in ConfiguredThresholds :
          sg = [phase |-> "args",
                cfg |-> [sw |-> w.sw, tw |-> w.tw, buy |-> t.buy, sell |-> t.sell]]

\* SentimentTradingStrategy.__init__
SgConstruct ==
    /\ sg.phase = "args"
    /\ sg' = [phase |-> "ready", cfg |-> sg.cfg, weights |-> Normalize(sg.cfg)]
    /\ UNCHANGED <<now, rl, file, ct, ctFile, gw, cache, callers, bt, ag>>

\* generate_signal(ticker, sentiment_data, market_data)
SgGenerate ==
    /\ sg.phase = "ready"
    /\ \E sentiment \in SentimentInputs, ind \in IndicatorInputs :
          sg' = [phase |-> "signalled", cfg |-> sg.cfg, weights |-> sg.weights,
                 sentiment |-> sentiment, indicators |-> ind,
                 signal |-> GenerateSignal(sg.cfg, sentiment, ind)]
    /\ UNCHANGED <<now, rl, file, ct, ctFile, gw, cache, callers, bt, ag>>

\* the capital handed to calculate_position_size
Capitals == {0, 1000, 100000}

\* calculate_position_size(capital, signal['confidence']), no volatility and
\* the default risk_per_trade
SgSize ==
    /\ sg.phase = "signalled"
    /\ \E capital \in Capitals :
          sg' = [phase |-> "sized", cfg |-> sg.cfg, weights |-> sg.weights,
                 sentiment |-> sg.sentiment, indicators |-> sg.indicators,
                 signal |-> sg.signal, capital |-> capital,
                 position |-> PositionSize(sg.cfg, capital, sg.signal.confNum)]
    /\ UNCHANGED <<now, rl, file, ct, ctFile, gw, cache, callers, bt, ag>>

NextStrategy == SgConstruct \/ SgGenerate \/ SgSize

SpecStrategy == InitStrategy /\ [][NextStrategy]_vars

(***************************************************************************)
(* SpecAggregate: aggregate_sentiment applied to a list of observations    *)
(* that analyze_sentiment / batch_analyze returned.  Scores and            *)
(* confidences are tenths; average_score, weighted_score and confidence    *)
(* of the snapshot are fractions num / den.                                *)
(***************************************************************************)
MaxObservations == 3

OverallThresholdTenths == 3

\* replies of the external scorer behind the observations of a request
AggregateReplies ==
    {Reply("object", FALSE, "positive", Field("number", 3), Field("number", 10)),
     Reply("object", FALSE, "positive", Field("number", 6), Field("number", 5)),
     Reply("object", FALSE, "negative", Field("number", -3), Field("number", 10)),
     Reply("object", FALSE, "negative", Field("number", -10), Field("number", 5)),
     Reply("object", FALSE, "neutral", Field("number", 0), Field("number", 5)),
     Reply("object", FALSE, "positive", Field("number", 4), Field("number", 0)),
     Reply("object", FALSE, "Positive", Field("number", 8), Field("absent", 0)),
     Reply("object", FALSE, "bullish", Field("number", 50), Field("number", 20)),
     Reply("object", FALSE, "negative", Field("number", -2), Field("number", -5))}

\* what analyze_sentiment returns for them, and the fill-in of a refused batch
Observations == {ParseReply(r).obs : r \in AggregateReplies} \cup {RateLimitFill}

ObservationLists ==
    UNION {[1..n -> Observations] : n \in 0..MaxObservations}

\* str.lower() on a label
Lower(label) == IF label = "Positive" THEN "positive" ELSE label

\* lines 280-291: the sums and the tally of the loop
Tally(results, label) ==
    IF label \in {"positive", "negative", "neutral"}
    THEN Cardinality({k \in 1..Len(results) : Lower(results[k].sentiment) = label})
    ELSE 0

\* aggregate_sentiment, lines 263-321
Aggregate(results) ==
    IF Len(results) = 0
    THEN [overall_sentiment |-> "neutral",
          average_score |-> [num |-> 0, den |-> 1],
          weighted_score |-> [num |-> 0, den |-> 1],
          confidence |-> [num |-> 0, den |-> 1],
          positive_count |-> 0, negative_count |-> 0, neutral_count |-> 0,
          total_count |-> 0]
    ELSE LET n == Len(results)
             scores == SumSeq([k \in 1..n |-> results[k].score])
             weighted_sum == SumSeq([k \in 1..n |-> results[k].score * results[k].confidence])
             total_confidence == SumSeq([k \in 1..n |-> results[k].confidence])
             average_score == [num |-> scores, den |-> 10 * n]
             weighted_score == IF total_confidence > 0
                               THEN [num |-> weighted_sum, den |-> 10 * total_confidence]
                               ELSE average_score
         IN [overall_sentiment |->
                IF 10 * weighted_score.num > OverallThresholdTenths * weighted_score.den
                THEN "bullish"
                ELSE IF 10 * weighted_score.num < -OverallThresholdTenths * weighted_score.den
                THEN "bearish"
                ELSE "neutral",
             average_score |-> average_score,
             weighted_score |-> weighted_score,
             confidence |-> [num |-> total_confidence, den |-> 10 * n],
             positive_count |-> Tally(results, "positive"),
             negative_count |-> Tally(results, "negative"),
             neutral_count |-> Tally(results, "neutral"),
             total_count |-> n]

OthersIdleAg ==
    /\ OthersIdleSg
    /\ sg = IdleSg

\* the list of observations handed to aggregate_sentiment
InitAggregate ==
    /\ OthersIdleAg
    /\ \E results \in ObservationLists : ag = [phase |-> "args", results |-> results]

\* aggregate_sentiment(sentiment_results)
AgAggregate ==
    /\ ag.phase = "args"
    /\ ag' = [phase |-> "done", results |-> ag.results, snapshot |-> Aggregate(ag.results)]
    /\ UNCHANGED <<now, rl, file, ct, ctFile, gw, cache, callers, bt, sg>>

NextAggregate == AgAggregate

SpecAggregate == InitAggregate /\ [][NextAggregate]_vars

(***************************************************************************)
(* Claims about the RateLimiter alone (SpecGateway).                       *)
(***************************************************************************)
Refusals == {"per_minute", "per_day", "per_cost"}

\* oldest recorded timestamp still held by the limiter
Oldest(r) == CHOOSE x \in {r.ts[i] : i \in 1..Len(r.ts)} : \A i \in 1..Len(r.ts) : x <= r.ts[i]

DailyCeilingsFree(r, t) ==
    RequestsToday(r, t) < MaxRequestsPerDay /\ CostToday(r, t) < MaxDailyCost

\* the ceiling check_rate_limit is to name: the first violated one
FirstViolated(r, t) ==
    IF WindowCount(r, t) >= MaxRequestsPerMinute THEN "per_minute"
    ELSE IF RequestsToday(r, t) >= MaxRequestsPerDay THEN "per_day"
    ELSE IF CostToday(r, t) >= MaxDailyCost THEN "per_cost"
    ELSE "allowed"

\* C1: with max_requests_per_minute recorded calls inside the last 60 seconds the
\* next check_rate_limit refuses with the per-minute reason; once the oldest of
\* the max_requests_per_minute recorded calls is more than 60 seconds old and no
\* daily ceiling is reached, check_rate_limit admits again.
C1_PerMinuteCeilingAndResume ==
    [][GwCheck =>
        /\ (WindowCount(rl, now) >= MaxRequestsPerMinute => gw'.outcome = "per_minute")
        /\ (/\ Len(rl.ts) = MaxRequestsPerMinute
            /\ now - Oldest(rl) > WindowSeconds
            /\ DailyCeilingsFree(rl, now)
            => gw'.outcome = "allowed")]_vars

\* C2: check_rate_limit returns allowed exactly when the window has room and
\* today's request count and cost are below their ceilings, and a refusal names
\* the first violated ceiling in the order per-minute, per-day, cost.
C2_AllowedIffAllThreePass ==
    [][GwCheck =>
        /\ (gw'.outcome = "allowed") <=>
              (WindowCount(rl, now) < MaxRequestsPerMinute /\ DailyCeilingsFree(rl, now))
        /\ (FirstViolated(rl, now) # "allowed" => gw'.outcome = FirstViolated(rl, now))]_vars

\* C3: check_rate_limit never fails: it returns allowed or a refusal, and with no
\* entry for today (day rollover, reloaded state) it admits when the window has room.
C3_CheckNeverFails ==
    [][GwCheck =>
        /\ gw'.outcome \in Refusals \cup {"allowed"}
        /\ (/\ Today(now) \notin DOMAIN rl.dr
            /\ Today(now) \notin DOMAIN rl.dc
            /\ WindowCount(rl, now) < MaxRequestsPerMinute
            /\ MaxRequestsPerDay > 0 /\ MaxDailyCost > 0
            => gw'.outcome = "allowed")]_vars

(***************************************************************************)
(* Claims about the Sentiment Scorer and its gateway (SpecScorer).         *)
(***************************************************************************)
LastOf(seq) == seq[Len(seq)]

UsageUnchanged ==
    /\ WindowCount(rl', now') = WindowCount(rl, now)
    /\ RequestsToday(rl', now') = RequestsToday(rl, now)
    /\ CostToday(rl', now') = CostToday(rl, now)
    /\ file' = file /\ ct' = ct /\ ctFile' = ctFile

\* C4: the check and the record of a call act as one exclusive step, so that no
\* 60-second window holds more than max_requests_per_minute recorded calls and no
\* day counts more than max_requests_per_day requests.
C4_CeilingsNeverExceeded ==
    /\ \A i \in 1..Len(rl.ts) :
          Cardinality({j \in 1..Len(rl.ts) :
                          rl.ts[j] > rl.ts[i] - WindowSeconds /\ rl.ts[j] <= rl.ts[i]})
            <= MaxRequestsPerMinute
    /\ \A d \in DOMAIN rl.dr : rl.dr[d] <= MaxRequestsPerDay

\* C7: an external call that returned a response leaves its observation in the
\* cache under the key of (ticker, first 200 characters); a cached observation
\* is never replaced; and a score whose key is cached returns the cached
\* observation with no external call and no change of the budget state.  So
\* every later score of the same key returns the same observation.
C7_LaterScoreIsCacheHit ==
    [][\A c \in Callers :
          /\ \A reply \in Replies \ {ApiError}, tokens \in ScorerTokens :
                ScoreRespondWith(c, reply, tokens) =>
                    /\ CurrentKey(callers[c]) \in DOMAIN cache'
                    /\ cache'[CurrentKey(callers[c])] = LastOf(callers'[c].results)
          /\ (ScoreBegin(c) /\ CurrentKey(callers[c]) \in DOMAIN cache =>
                    /\ LastOf(callers'[c].results) = cache[CurrentKey(callers[c])]
                    /\ callers'[c].pc \notin {"wait", "sleep", "call"}
                    /\ rl' = rl /\ UsageUnchanged)
          /\ \A k \in DOMAIN cache : k \in DOMAIN cache' /\ cache'[k] = cache[k]]_vars

Labels == {"positive", "negative", "neutral"}

InRange(o) ==
    /\ o.score >= -10 /\ o.score <= 10
    /\ o.confidence >= 0 /\ o.confidence <= 10
    /\ o.sentiment \in Labels

\* C8: every observation score() returns has score in [-1,1], confidence in
\* [0,1] and label positive, negative or neutral, whatever the scorer replied.
C8_ObservationsInRange ==
    \A c \in Callers : \A k \in 1..Len(callers[c].results) : InRange(callers[c].results[k])

\* C9: batch_score never raises and returns one observation per text of the
\* request cut to max_texts_per_request; after a refusal at a batch boundary the
\* texts not yet scored get a neutral, confidence-0 observation.
C9_BatchNeverRaises ==
    \A c \in Callers :
        callers[c].kind = "batch" /\ callers[c].pc = "done" =>
            /\ ~callers[c].raised
            /\ Len(callers[c].results) = Min(Len(callers[c].input), MaxTextsPerRequest)
            /\ \A k \in 1..Len(callers[c].results) :
                  k > Len(callers[c].results) - callers[c].filled =>
                      /\ callers[c].results[k].sentiment = "neutral"
                      /\ callers[c].results[k].score = 0
                      /\ callers[c].results[k].confidence = 0

\* C10: on a cache miss that the gateway refuses, score() returns a neutral
\* observation with score 0, confidence 0 and the refusal reason, starts no
\* external call and records no usage.
C10_RefusedScoreIsNeutral ==
    [][\A c \in Callers :
          (/\ ScoreBegin(c)
           /\ CurrentKey(callers[c]) \notin DOMAIN cache
           /\ CheckRateLimit(rl, now).outcome \in Refusals)
          => /\ LastOf(callers'[c].results) =
                    Obs("neutral", 0, RefusalReasoning(CheckRateLimit(rl, now).outcome), 0)
             /\ Len(callers'[c].results) = Len(callers[c].results) + 1
             /\ callers'[c].pc \notin {"wait", "sleep", "call"}
             /\ UsageUnchanged
             /\ cache' = cache]_vars

C10_Witness ==
    \E c \in Callers :
        /\ callers[c].last.via = "refused"
        /\ LastOf(callers[c].results).confidence = 0
        /\ Len(rl.ts) > 0

\* C11: the budget state changes only through an external call that returned
\* a response: such a call adds exactly one timestamp to the sliding window and
\* exactly 1 to today's request count; a cache hit, a refused admission and an
\* external call that fails add nothing to the window, the count or the cost.
C11_UsageOnlyFromAnsweredCalls ==
    [][\A c \in Callers :
          /\ \A reply \in Replies \ {ApiError}, tokens \in ScorerTokens :
                ScoreRespondWith(c, reply, tokens) =>
                    /\ WindowCount(rl', now) = WindowCount(rl, now) + 1
                    /\ RequestsToday(rl', now) = RequestsToday(rl, now) + 1
          /\ \A tokens \in ScorerTokens :
                ScoreRespondWith(c, ApiError, tokens) => UsageUnchanged
          /\ (/\ ScoreBegin(c)
              /\ \/ CurrentKey(callers[c]) \in DOMAIN cache
                 \/ CheckRateLimit(rl, now).outcome \in Refusals
              => UsageUnchanged)]_vars

(***************************************************************************)
(* Claims about the backtest (SpecBacktest).                               *)
(***************************************************************************)
Traded == Len(bt'.trades) > Len(bt.trades)

LastTrade == bt'.trades[Len(bt'.trades)]

\* C5: after every simulated day cash >= 0 and shares >= 0; a buy is executed
\* only when its cost including the transaction cost does not exceed the cash,
\* and a sell never sells more shares than are held.
C5_NoShortNoMargin ==
    [][/\ (BtLoad /\ bt'.phase = "loop" => bt'.cash >= 0 /\ bt'.shares >= 0)
       /\ (BtDay =>
             /\ bt'.cash >= 0 /\ bt'.shares >= 0
             /\ bt'.values[Len(bt'.values)].cash >= 0
             /\ bt'.values[Len(bt'.values)].shares >= 0
             /\ Len(bt'.trades) <= Len(bt.trades) + 1
             /\ (Traded /\ LastTrade.type = "buy" =>
                    /\ LastTrade.amount = BuyCost(LastTrade.shares, LastTrade.price, bt.tc)
                    /\ LastTrade.amount <= bt.cash
                    /\ bt'.cash = bt.cash - LastTrade.amount
                    /\ bt'.shares = bt.shares + LastTrade.shares)
             /\ (Traded /\ LastTrade.type = "sell" =>
                    /\ LastTrade.shares <= bt.shares
                    /\ bt'.shares = bt.shares - LastTrade.shares
                    /\ bt'.cash >= bt.cash)
             /\ (~Traded => bt'.cash = bt.cash /\ bt'.shares = bt.shares))]_vars

C5_Witness ==
    /\ bt.phase \in {"loop", "done"}
    /\ \E i, j \in 1..Len(bt.trades) :
          /\ i < j
          /\ bt.trades[i].type = "buy" /\ bt.trades[i].shares > 1
          /\ bt.trades[j].type = "sell"
    /\ bt.tc > 0

\* the sentiment aggregate with the latest date among those dated <= d, in
\* whatever order the rows come; the default when there is none
LatestAsOf(rows, d) ==
    LET upto == {i \in 1..Len(rows) : rows[i].date <= d}
    IN IF upto = {} THEN DefaultSentiment
       ELSE LET latest == CHOOSE i \in upto : \A j \in upto : rows[j].date <= rows[i].date
            IN [weighted_score |-> rows[latest].avg_sentiment_score,
                confidence |-> rows[latest].avg_confidence,
                total_count |-> rows[latest].mention_count]

\* C6: on each simulated day the sentiment given to generate_signal is the
\* aggregate with the latest date among those dated <= that day, whatever the
\* order of the rows; the default (0, 0.3, 0) when there is none; an aggregate
\* dated after the day is never used.
C6_SentimentAsOfDay ==
    bt.phase \in {"loop", "done"} /\ bt.idx > 0 =>
        bt.given = LatestAsOf(bt.rows, bt.market[bt.idx].date)

\* the signal of the day just processed, recomputed from what the day gave
\* generate_signal
SignalOfDay == GenerateSignal(bt.cfg, bt'.given, bt'.indicators)

PriceOfDay == bt.market[bt.idx + 1].Close

\* the largest whole n with n * price * (1 + transaction_cost) <= position
LargestAffordable(position, price, tc) ==
    position.num \div (position.den * price * (MoneyScale + tc))

\* C12: on a buy signal with cash > 0 the simulator buys n shares, n the largest
\* whole number with n * price * (1 + transaction_cost) <=
\* calculate_position_size(cash, confidence); when n is 0 no trade is made.
C12_BuysLargestAffordable ==
    [][BtDay /\ bt'.signal = "buy" /\ bt.cash > 0 =>
          LET n == LargestAffordable(PositionSize(bt.cfg, bt.cash, SignalOfDay.confNum),
                                     PriceOfDay, bt.tc)
          IN /\ (n > 0 => /\ Traded
                          /\ LastTrade.type = "buy"
                          /\ LastTrade.shares = n
                          /\ bt'.shares = bt.shares + n)
             /\ (n = 0 => ~Traded /\ bt'.cash = bt.cash /\ bt'.shares = bt.shares)]_vars

\* the sized position is below the price of one share
BuysNothing ==
    LET position == PositionSize(bt.cfg, bt.cash, SignalOfDay.confNum)
    IN position.num < position.den * PriceOfDay * MoneyScale

\* C13: on a sell signal with shares > 0 the whole position is sold in one
\* trade: shares become 0 and cash grows by shares * price * (1 - transaction
\* cost); a day appends at most one trade; a hold, a sell with no shares and a
\* buy of zero shares leave cash, shares and the trade log unchanged.
C13_SellLiquidatesAll ==
    [][BtDay =>
          /\ Len(bt'.trades) <= Len(bt.trades) + 1
          /\ (bt'.signal = "sell" /\ bt.shares > 0 =>
                 /\ bt'.trades = Append(bt.trades,
                        Trade(bt.market[bt.idx + 1].date, "sell", bt.shares, PriceOfDay,
                              bt.shares * PriceOfDay * (MoneyScale - bt.tc)))
                 /\ bt'.shares = 0
                 /\ bt'.cash = bt.cash + bt.shares * PriceOfDay * (MoneyScale - bt.tc))
          /\ (\/ bt'.signal = "hold"
              \/ bt'.signal = "sell" /\ bt.shares = 0
              \/ bt'.signal = "buy" /\ BuysNothing
              => bt'.cash = bt.cash /\ bt'.shares = bt.shares /\ bt'.trades = bt.trades)]_vars

C13_Witness ==
    /\ bt.phase = "loop"
    /\ bt.signal = "sell"
    /\ bt.shares = 0
    /\ bt.trades # <<>>
    /\ bt.trades[Len(bt.trades)].type = "sell"
    /\ bt.trades[Len(bt.trades)].date = bt.market[bt.idx].date
    /\ bt.trades[Len(bt.trades)].shares > 1

\* what generate_signal makes of an empty indicator set: technical score 0,
\* technical confidence 0.3
NoTechnicalInput ==
    /\ bt'.indicators = EmptyIndicators
    /\ SignalOfDay.finalNum = bt.cfg.sw * bt'.given.weighted_score
    /\ SignalOfDay.finalDen = 10 * TotalWeight(bt.cfg)
    /\ SignalOfDay.confNum =
          bt.cfg.sw * bt'.given.confidence + bt.cfg.tw * NoIndicatorConfidence
    /\ bt'.signal = SignalOfDay.signal_type

\* C14 as stated: the indicator set of a day is computed only once at least 20
\* bars prior to that day exist; on every earlier day generate_signal receives
\* the empty indicator set (technical score 0, technical confidence 0.3).
C14_IndicatorsNeedTwentyPriorBars ==
    [][BtDay => (bt.idx < MinBars => NoTechnicalInput)]_vars

\* C14, amended: the indicator set of a day is computed only once the history
\* up to and including that day holds at least 20 bars; on every earlier day
\* generate_signal receives the empty indicator set (technical score 0,
\* technical confidence 0.3).
C14_IndicatorsNeedTwentyBars ==
    [][BtDay =>
          /\ (bt.idx + 1 < MinBars => NoTechnicalInput)
          /\ (~bt'.indicators.empty => bt.idx + 1 >= MinBars)]_vars

C14_Witness ==
    /\ bt.phase = "loop"
    /\ bt.idx = MinBars
    /\ ~bt.indicators.empty
    /\ bt.cfg.tw > 0

\* C15: for every non-empty price history, a single trading day and a
\* constant portfolio value included, run_backtest returns a result: it never
\* fails, and the metrics are 0.0 wherever their denominator would be zero
\* (fewer than 2 returns or zero variance: sharpe_ratio; no sell: win_rate).
C15_MetricsAlwaysReturned ==
    /\ bt.phase # "raised"
    /\ bt.phase = "done" =>
          /\ bt.result.total_return.den > 0
          /\ bt.result.max_drawdown.den > 0
          /\ bt.result.win_rate.den > 0
          /\ (Len(bt.values) <= 2 => bt.result.sharpe_zero)
          /\ ((\A t \in 1..Len(bt.values) : bt.values[t].value = InitialCapital)
                 => /\ bt.result.sharpe_zero
                    /\ bt.result.max_drawdown.num = 0
                    /\ bt.result.total_return.num = 0)
          /\ ((\A k \in 1..Len(bt.trades) : bt.trades[k].type # "sell")
                 => bt.result.win_rate.num = 0)

\* C16: when the price history is empty (no bars at all, or none inside the
\* requested date range) run_backtest returns an error result that carries
\* the ticker and a no-data indication and holds no trades and no metrics; it
\* does not raise, and nothing is simulated afterwards.
C16_EmptyHistoryIsError ==
    [][/\ (BtLoad /\ (\A i \in 1..Len(bt.raw) :
                         bt.raw[i].date < RunStart \/ bt.raw[i].date > RunEnd) =>
             /\ bt'.phase = "error"
             /\ DOMAIN bt' = {"phase", "error", "ticker"}
             /\ bt'.ticker = bt.ticker
             /\ bt'.error \in {"No market data available for the specified period",
                               "No market data in the specified date range"})
       /\ (bt.phase = "error" => bt' = bt)]_vars

C16_Witness ==
    /\ bt.phase = "error"
    /\ bt.ticker \in Tickers
    /\ bt.error = "No market data in the specified date range"

\* C17: max_drawdown is 100 times the minimum over all days t of
\* (V_t - P_t) / P_t, V_t the end-of-day value and P_t the highest end-of-day
\* value up to and including t, the first day included; it is never positive
\* and is strictly negative whenever the value falls below an earlier day's.
C17_DrawdownFromRunningPeak ==
    bt.phase = "done" =>
        LET v == ValuesOf(bt)
            claimed == DrawdownFrom(v, 1)
            got == bt.result.max_drawdown
        IN /\ FracEqual(got.num + got.den, got.den, claimed.num + claimed.den, claimed.den)
           /\ got.num <= 0
           /\ ((\E a, b \in 1..Len(v) : a < b /\ v[b] < v[a]) => got.num < 0)

(***************************************************************************)
(* Claims about the signal generator (SpecStrategy).                       *)
(***************************************************************************)
\* C18: after construction with any configured pair of weights,
\* sentiment_weight + technical_weight = 1 and the two normalized weights keep
\* the ratio of the configured ones.
C18_WeightsSumToOne ==
    sg.phase \in {"ready", "signalled"} =>
        /\ sg.weights.sw + sg.weights.tw = sg.weights.den
        /\ sg.weights.sw * sg.cfg.tw = sg.weights.tw * sg.cfg.sw

\* C19: final_score = sentiment_weight * weighted_score + technical_weight *
\* technical_score, classified with exclusive boundaries: buy exactly when
\* final_score > buy_threshold, sell exactly when final_score < sell_threshold
\* (and not buy), hold otherwise; the confidence is the same weighted
\* combination of the two confidences.  (Weights are weights.sw / weights.den,
\* scores and thresholds are tenths, final_score is finalNum / finalDen.)
C19_ExclusiveThresholds ==
    [][SgGenerate =>
          LET w == sg.weights
              sig == sg'.signal
              t == sig.technical_score
              above == 10 * sig.finalNum > sg.cfg.buy * sig.finalDen
              below == 10 * sig.finalNum < sg.cfg.sell * sig.finalDen
          IN /\ sig.finalDen > 0
             /\ sig.finalNum * (10 * w.den * t.den) =
                   sig.finalDen * (w.sw * sg'.sentiment.weighted_score * t.den + w.tw * t.num)
             /\ (sig.signal_type = "buy" <=> above)
             /\ (sig.signal_type = "sell" <=> ~above /\ below)
             /\ (sig.signal_type = "hold" <=> ~above /\ ~below)
             /\ sig.confNum = w.sw * sg'.sentiment.confidence
                                + w.tw * sig.technical_confidence]_vars

C19_Witness ==
    /\ sg.phase = "signalled"
    /\ sg.cfg.sw > 0 /\ sg.cfg.tw > 0
    /\ 10 * sg.signal.finalNum = sg.cfg.buy * sg.signal.finalDen
    /\ sg.signal.signal_type = "hold"

\* the vote table read with "present" meaning "has a value", 0 included
PresentVotes(ind) ==
    LET price == ind.current_price
        rsi == IF ~ind.RSI.has THEN <<>>
               ELSE IF ind.RSI.v < 30 THEN <<7>>
               ELSE IF ind.RSI.v > 70 THEN <<-7>>
               ELSE IF ind.RSI.v < 50 THEN <<2>>
               ELSE <<-2>>
        macd == IF ind.MACD.has /\ ind.MACD_signal.has
                THEN (IF ind.MACD.v > ind.MACD_signal.v THEN <<5>> ELSE <<-3>>)
                ELSE <<>>
        diff == IF ind.MACD_diff.has
                THEN (IF ind.MACD_diff.v > 0 THEN <<3>> ELSE <<-3>>)
                ELSE <<>>
        ma == IF ind.MA_20.has /\ ind.MA_50.has /\ price.has
              THEN (IF price.v > ind.MA_20.v /\ ind.MA_20.v > ind.MA_50.v THEN <<6>>
                    ELSE IF price.v < ind.MA_20.v /\ ind.MA_20.v < ind.MA_50.v THEN <<-6>>
                    ELSE <<0>>)
              ELSE <<>>
        long == IF ind.MA_200.has /\ price.has
                THEN (IF price.v > ind.MA_200.v THEN <<2>> ELSE <<-2>>)
                ELSE <<>>
        bb == IF ind.BB_high.has /\ ind.BB_low.has /\ ind.BB_mid.has /\ price.has
              THEN (IF price.v <= ind.BB_low.v THEN <<5>>
                    ELSE IF price.v >= ind.BB_high.v THEN <<-5>>
                    ELSE <<0>>)
              ELSE <<>>
        vol == IF ind.volume.has /\ ind.volume_sma.has
               THEN (IF 2 * ind.volume.v > 3 * ind.volume_sma.v THEN <<2>>
                     ELSE IF 2 * ind.volume.v < ind.volume_sma.v THEN <<-1>>
                     ELSE <<>>)
               ELSE <<>>
    IN rsi \o macd \o diff \o ma \o long \o bb \o vol

\* C20: the technical score is the mean, clamped to [-1, 1], of exactly the
\* votes of the vote table whose required fields are all present, a field
\* being present whenever it has a value, the value 0 included (volume 0 with a
\* positive volume_sma casts the -0.1 vote); the score is 0 when no vote is cast.
C20_ScoreIsMeanOfPresentVotes ==
    sg.phase = "signalled" =>
        LET votes == IF sg.indicators.empty THEN <<>> ELSE PresentVotes(sg.indicators)
            score == sg.signal.technical_score
        IN /\ score.den > 0
           /\ (votes = <<>> => score.num = 0)
           /\ (votes # <<>> =>
                  score.num * Len(votes) =
                     score.den * Clamp(SumSeq(votes), -10 * Len(votes), 10 * Len(votes)))

\* the number of fields among the six counted ones that have a value
CountedPresent(ind) ==
    Cardinality({f \in {"RSI", "MACD", "MA_20", "MA_50", "MA_200", "BB_high"} :
                    ~ind.empty /\ ind[f].has})

\* C21: the technical confidence is min(1.0, 0.4 + n/10), n being the number
\* of fields among RSI, MACD, MA_20, MA_50, MA_200, BB_high that are present,
\* except that it is 0.3 whenever n = 0, also for an indicator set that
\* carries only other fields such as current_price or volume.  (Tenths.)
C21_ConfidenceFloorWheneverNoneCounted ==
    sg.phase = "signalled" =>
        LET n == CountedPresent(sg.indicators)
        IN sg.signal.technical_confidence =
              IF n = 0 THEN 3 ELSE IF 4 + n > 10 THEN 10 ELSE 4 + n

\* C22: without volatility the position size equals capital * risk_per_trade
\* * clamp(0.5 + 1.5 * confidence, 0.5, 2.0), lies between 0.5 and 2.0 times
\* capital * risk_per_trade, and no larger confidence in [0, 1] gives a smaller
\* size for the same capital.  (confidence = confNum / (10 * weights.den),
\* risk_per_trade = 2 / 100, the size is position.num / position.den.)
C22_PositionSizeMonotoneAndBounded ==
    sg.phase = "sized" =>
        LET W == sg.weights.den
            conf == sg.signal.confNum
            size == sg.position
            claimed == Clamp(50 * W + 15 * conf, 50 * W, 200 * W)
        IN /\ size.den > 0
           /\ FracEqual(size.num, size.den, sg.capital * 2 * claimed, 10000 * W)
           /\ ~FracLess(size.num, size.den, sg.capital, 100)
           /\ ~FracLess(sg.capital * 4, 100, size.num, size.den)
           /\ \A higher \in conf..(10 * W) :
                 ~FracLess(PositionSize(sg.cfg, sg.capital, higher).num,
                           PositionSize(sg.cfg, sg.capital, higher).den,
                           size.num, size.den)
           /\ \A lower \in 0..conf :
                 ~FracLess(size.num, size.den,
                           PositionSize(sg.cfg, sg.capital, lower).num,
                           PositionSize(sg.cfg, sg.capital, lower).den)

\* a size strictly between the two ends of the range has been computed
C22_Witness ==
    /\ sg.phase = "sized"
    /\ sg.capital > 0
    /\ FracLess(sg.capital, 100, sg.position.num, sg.position.den)
    /\ FracLess(sg.position.num, sg.position.den, sg.capital * 4, 100)

(***************************************************************************)
(* Claims about aggregate_sentiment (SpecAggregate)                        *)
(***************************************************************************)
\* sum of score * confidence, sum of confidence and sum of score of a list
RECURSIVE SumOver(_, _, _)
SumOver(results, k, what) ==
    IF k = 0 THEN 0
    ELSE SumOver(results, k - 1, what)
           + (CASE what = "score" -> results[k].score
                [] what = "confidence" -> results[k].confidence
                [] OTHER -> results[k].score * results[k].confidence)

\* num / den > 3/10 resp. < -3/10 for a denominator of either sign
Above(num, den) == IF den > 0 THEN 10 * num > 3 * den ELSE 10 * num < 3 * den

Below(num, den) == IF den > 0 THEN 10 * num < -3 * den ELSE 10 * num > -3 * den

\* C23: the snapshot is bullish exactly when weighted_score > 0.3, bearish
\* exactly when weighted_score < -0.3 and neutral otherwise (0.3 and -0.3 give
\* neutral), weighted_score being sum(score * confidence) / sum(confidence),
\* or the unweighted mean of the scores when the total confidence is 0.
C23_OverallLabelByWeightedScore ==
    ag.phase = "done" /\ Len(ag.results) > 0 =>
        LET n == Len(ag.results)
            total == SumOver(ag.results, n, "confidence")
            num == IF total = 0 THEN SumOver(ag.results, n, "score")
                   ELSE SumOver(ag.results, n, "product")
            den == IF total = 0 THEN 10 * n ELSE 10 * total
            label == ag.snapshot.overall_sentiment
        IN /\ (label = "bullish" <=> Above(num, den))
           /\ (label = "bearish" <=> Below(num, den))
           /\ (label = "neutral" <=> ~Above(num, den) /\ ~Below(num, den))

\* C24: total_count is the number of observations, each of the three counts
\* is the exact number of observations with that label, and positive_count +
\* negative_count + neutral_count = total_count.
C24_CountsAreExactTallies ==
    ag.phase = "done" =>
        LET snap == ag.snapshot
            with(l) == Cardinality({k \in 1..Len(ag.results) :
                                       Lower(ag.results[k].sentiment) = l})
        IN /\ snap.total_count = Len(ag.results)
           /\ snap.positive_count = with("positive")
           /\ snap.negative_count = with("negative")
           /\ snap.neutral_count = with("neutral")
           /\ snap.positive_count + snap.negative_count + snap.neutral_count
                 = snap.total_count

(***************************************************************************)
(* Claims about wait_if_needed under concurrent requests (SpecCrowd)       *)
(***************************************************************************)
\* C25: wait_if_needed blocks only on the per-minute ceiling: it returns at
\* once when the sliding 60-second window has room, it sleeps only when the
\* window is full (never because of the daily request or cost ceiling), and
\* whenever it returns, at once or at the end of its sleep, the window holds
\* fewer than max_requests_per_minute timestamps, so that the per-minute check
\* that follows admits.
C25_WaitOnlyOnPerMinute ==
    [][\A c \in CrowdCallers :
          /\ ScoreWait(c) =>
                /\ (WindowCount(rl, now) < MaxRequestsPerMinute => callers'[c].pc = "call")
                /\ (callers'[c].pc = "sleep" =>
                       WindowCount(rl, now) >= MaxRequestsPerMinute)
                /\ (callers'[c].pc = "call" =>
                       /\ WindowCount(rl', now') < MaxRequestsPerMinute
                       /\ CheckRateLimit(rl', now').outcome # "per_minute")
          /\ ScoreWake(c) /\ now = callers[c].wake =>
                /\ WindowCount(rl', now') < MaxRequestsPerMinute
                /\ CheckRateLimit(rl', now').outcome # "per_minute"]_vars

(***************************************************************************)
(* Further claims about the RateLimiter (SpecGateway)                      *)
(***************************************************************************)
\* no per-day counter of r is for a date more than 7 days before the date of t
NoOldCounters(r, t) ==
    /\ \A d \in DOMAIN r.dr : d >= Today(t) - 7
    /\ \A d \in DOMAIN r.dc : d >= Today(t) - 7

\* the counters of the 7 days before the date of t are in after as in before
RecentKept(before, after, t) ==
    /\ \A d \in DOMAIN before.dr :
          d >= Today(t) - 7 /\ d < Today(t) => d \in DOMAIN after.dr /\ after.dr[d] = before.dr[d]
    /\ \A d \in DOMAIN before.dc :
          d >= Today(t) - 7 /\ d < Today(t) => d \in DOMAIN after.dc /\ after.dc[d] = before.dc[d]

\* C26: whenever check_rate_limit or record_request returns, and right after a
\* startup that reloaded the persisted state, the limiter holds no per-day
\* request or cost counter for a date more than 7 days before the current
\* date, and the counters of the 7 preceding days are kept with their values.
C26_CountersPrunedToSevenDays ==
    /\ NoOldCounters(rl, now)
    /\ [][/\ (GwCheck /\ gw'.outcome # KeyError) =>
                (NoOldCounters(rl', now') /\ RecentKept(rl, rl', now'))
          /\ (GwRecord /\ gw'.outcome # KeyError) =>
                (NoOldCounters(rl', now') /\ RecentKept(rl, rl', now'))
          /\ GwRestart =>
                (/\ NoOldCounters(rl', now')
                 /\ RecentKept([dr |-> file.dr, dc |-> file.dc], rl', now'))]_vars

\* C27: record_request(tokens) adds to today's cost an estimate that splits
\* the tokens 70% input / 30% output and prices the parts at the per-token
\* rates the limiter was configured with (cost_per_1k_tokens for the input
\* tokens; the output rate has no constructor argument and is taken as the
\* code has it).
C27_CostFollowsConfiguredRates ==
    [][GwRecord /\ gw'.outcome = "ok" =>
          \E tokens \in TokenChoices :
             CostToday(rl', now') - CostToday(rl, now) =
                ((tokens * 7) \div 10) * rl.cost_per_1k_tokens
                  + ((tokens * 3) \div 10) * OutputPrice]_vars

(***************************************************************************)
(* Further claims about the scorer (SpecScorer)                            *)
(***************************************************************************)
\* the texts of a batch request that have no observation yet
Unanswered(cr) == (Len(cr.results) + 1)..Len(cr.texts)

\* C28: in batch_analyze a text whose observation is in the cache is returned
\* from the cache, with no gateway interaction, whatever the state of the
\* limiter: a refusal at a batch boundary never puts a neutral "Rate limit
\* reached" observation in the place of a cached one.
C28_CachedTextSurvivesRefusal ==
    [][\A c \in BatchCallers :
          /\ (ScoreBegin(c) /\ CurrentKey(callers[c]) \in DOMAIN cache) =>
                (/\ rl' = rl
                 /\ LastOf(callers'[c].results) = cache[CurrentKey(callers[c])])
          /\ (BatchCheck(c) /\ callers'[c].filled > 0) =>
                (\A k \in Unanswered(callers[c]) :
                    CacheKey(callers[c].texts[k], callers[c].ticker) \notin DOMAIN cache)]_vars

(***************************************************************************)
(* Further claims about the backtest (SpecBacktest)                        *)
(***************************************************************************)
\* the shares of the first k trades of the log that have the given type
RECURSIVE SharesOf(_, _, _)
SharesOf(trades, k, type) ==
    IF k = 0 THEN 0
    ELSE SharesOf(trades, k - 1, type)
           + (IF trades[k].type = type THEN trades[k].shares ELSE 0)

\* C29: in the trade log of a backtest the first trade is a buy, two sells
\* are never adjacent, the dates of the trades are strictly increasing, and
\* at every point of the log the shares sold so far do not exceed the shares
\* bought so far.
C29_TradeLogWellFormed ==
    "trades" \in DOMAIN bt =>
        LET log == bt.trades
        IN /\ (Len(log) > 0 => log[1].type = "buy")
           /\ \A i \in 1..(Len(log) - 1) :
                 /\ ~(log[i].type = "sell" /\ log[i + 1].type = "sell")
                 /\ log[i].date < log[i + 1].date
           /\ \A k \in 1..Len(log) :
                 /\ log[k].type \in {"buy", "sell"}
                 /\ SharesOf(log, k, "sell") <= SharesOf(log, k, "buy")

\* a log in which a buy followed a sell that followed a buy
C29_Witness ==
    /\ "trades" \in DOMAIN bt
    /\ Len(bt.trades) >= 3
    /\ bt.trades[2].type = "sell"
    /\ bt.trades[3].type = "buy"

\* the neutral, confidence-0 observation the scorer falls back to
IsFallback(o) ==
    /\ o.sentiment = "neutral" /\ o.score = 0 /\ o.confidence = 0
    /\ o.reasoning \in {"Unable to parse sentiment", "Error", "Rate limit reached"}
                         \cup {RefusalReasoning(x) : x \in {"per_minute", "per_day", "per_cost"}}

\* C30: the cache only ever holds observations parsed from a reply of the
\* external scorer: the neutral confidence-0 fallback of a refused admission, a
\* failed call or an unparseable reply is never stored (so that the text is
\* submitted afresh later), and an entry once stored under a key is never
\* overwritten.
C30_CacheHoldsParsedRepliesOnly ==
    /\ [](\A k \in DOMAIN cache : ~IsFallback(cache[k]))
    /\ [][\A k \in DOMAIN cache : k \in DOMAIN cache' /\ cache'[k] = cache[k]]_vars

====
